---- MODULE Spec2Model ----
(***************************************************************************)
(* Model of the sorting orchestrator of swc_ephys / spikewrap:             *)
(* run_sorting, run_sorting_on_all_runs, quick_safety_check and the        *)
(* slurm_batch dispatch branch.  The filesystem is the only durable state: *)
(* per sorter output path, whether the directory exists, which invocation  *)
(* (generation) wrote the files in it, and which wrote its sorting_info    *)
(* manifest.                                                               *)
(***************************************************************************)
EXTENDS Integers, Sequences, FiniteSets, TLC

\* ---------------------------------------------------------------- bounds
NUnits == 2
MaxInv == 2
MaxJobs == 2

\* Positions in sorting_data.sorting_run_names(), in iteration order.
Units == 1..NUnits

\* Values of existing_sorting_output a caller passes.
Modes == {"fail_if_exists", "overwrite", "load_if_exists", "skip_if_exists"}

VARIABLES
    disk,        \* [path -> [is_dir, files, manifest]]; files and manifest hold
                 \* the generation that wrote them: 0 is output left by an
                 \* earlier pipeline run, k >= 1 the k-th execution of the loop
    inv,         \* number of executions of run_sorting_on_all_runs so far
    mode,        \* existing_sorting_output of the current call
    slurm_batch, \* slurm_batch of the current call
    sorter_arg,  \* sorter of the current call
    inJob,       \* the current call executes inside a submitted job
    pc,          \* position of the current call
    idx,         \* loop position in sorting_run_names()
    seenExists,  \* per unit: value of output_path.is_dir() when it was checked
    decision,    \* per unit: branch taken by the loop body ("None" = not visited)
    visit_order, \* the units the loop body has run for in this call, in order
    calls,       \* units for which ss.run_sorter was invoked in this call
    run_sorter_calls, \* the ss.run_sorter invocations of this call, in order:
                 \* the unit, whether its folder existed, the arguments
    saved,       \* units for which save_sorting_info ran in this call
    raisedAt,    \* unit whose processing raised (0 = none)
    raisedError, \* the exception that left the current call: its type and what
                 \* its message names
    sorterFailed, \* units for which ss.run_sorter raised in this call
    sorterReturned, \* units for which ss.run_sorter returned in this call
    snap,        \* disk when the current call started
    prevDone,    \* the previous call ran the loop to completion
    pending,     \* submitted jobs not yet run: <<[mode, slurm_batch]>>
    submitted,   \* jobs submitted since (and including) the last user call
    resubmitted, \* of these, jobs submitted by code running inside a job
    slurm_installed, \* is_slurm_installed() on this system
    platform,    \* platform.system() on this system
    slurm_logs,  \* a slurm_logs/<datetime> job log folder has been created
    cur,         \* who makes the current call: 0 the user, j >= 1 job j
    waiters,     \* callers blocked in job.wait(), innermost last
    jobInfo,     \* per job id: whether it was submitted, the `wait` option it
                 \* was submitted with, whether its submitter left run_in_slurm
    userCwd,     \* working directory of the user's process
    jobCwd,      \* working directory of the process of the current job
    cwdStart,    \* working directory of the calling process when the call began
    userMode,    \* existing_sorting_output of the last call made by the user
    \* -- folder layout of one pipeline run (LayoutSpec)
    sessions_and_runs, \* ordered session -> ordered runs, as passed
    concat_sessions,   \* concat_sessions_for_sorting
    concat_runs,       \* concat_runs_for_sorting
    lpc,               \* "idle" | "start" | "sorting" | "done"
    todo,              \* sorting units still to be sorted, in order
    derivs,            \* directories below the base path
    outputs,           \* of these, the sorter output folders
    sorted_units,      \* the sorter's invocations so far, in order
    \* -- one lookup in a dict of preprocessing steps (StepSpec)
    data,              \* the dict: its (key, value) items in insertion order
    step_num,          \* the step asked for: a number as text, or "last"
    spc,               \* "idle" | "input" | "called"
    result,            \* per variant of the function, its outcome or "none"
    \* -- one call of swc_ephys run_full_pipeline (PipelineSpec)
    fp_args,           \* slurm_batch, sorter, use_existing_preprocessed_file,
                       \* overwrite_existing_sorter_output
    preprocessed_exists, \* the 'preprocessed' folder of the subject exists
    singularity_installed, \* the singularity program is on this system
    fpc,               \* position in run_full_pipeline
    stage_log,         \* the stages entered and left so far, in order
    fp_submitted,      \* jobs submitted by the call
    \* -- paths in datetime order (OrderSpec)
    list_of_paths,     \* the list passed to the two functions
    stat,              \* per path: what getctime and getmtime return
    creation_or_modification, \* argument of list_of_files_are_in_datetime_order
    order_result,      \* outcome of list_of_files_are_in_datetime_order
    sorted_result,     \* outcome of sort_list_of_paths_by_datetime_order
    \* -- two concurrent invocations of run_sorting (RaceSpec)
    race_disk,         \* the output folders both invocations work on
    race_mode,         \* existing_sorting_output of both invocations
    race_pc,           \* per invocation: its position
    race_idx,          \* per invocation: its loop position
    race_seen          \* per invocation and unit: what output_path.is_dir() gave

vars == <<disk, inv, mode, slurm_batch, sorter_arg, inJob, pc, idx, seenExists, decision, visit_order, calls, run_sorter_calls, saved, raisedAt, raisedError, sorterFailed, sorterReturned, snap, prevDone, pending, submitted, resubmitted, slurm_installed, platform, slurm_logs, cur, waiters, jobInfo, userCwd, jobCwd, cwdStart, userMode, sessions_and_runs, concat_sessions, concat_runs, lpc, todo, derivs, outputs, sorted_units, data, step_num, spc, result, fp_args, preprocessed_exists, singularity_installed, fpc, stage_log, fp_submitted, list_of_paths, stat, creation_or_modification, order_result, sorted_result, race_disk, race_mode, race_pc, race_idx, race_seen>>

\* The variables of the orchestrator, and those of the folder layout.
mainVars == <<disk, inv, mode, slurm_batch, sorter_arg, inJob, pc, idx, seenExists, decision, visit_order, calls, run_sorter_calls, saved, raisedAt, raisedError, sorterFailed, sorterReturned, snap, prevDone, pending, submitted, resubmitted, slurm_installed, platform, slurm_logs, cur, waiters, jobInfo, userCwd, jobCwd, cwdStart, userMode>>

layoutVars == <<sessions_and_runs, concat_sessions, concat_runs, lpc, todo, derivs, outputs, sorted_units>>

stepVars == <<data, step_num, spc, result>>

pipeVars == <<fp_args, preprocessed_exists, singularity_installed, fpc, stage_log, fp_submitted>>

orderVars == <<list_of_paths, stat, creation_or_modification, order_result, sorted_result>>

raceVars == <<race_disk, race_mode, race_pc, race_idx, race_seen>>

sideVars == <<layoutVars, stepVars, pipeVars, orderVars, raceVars>>

\* What the steps of one specification leave alone of the others.
notLayoutVars == <<mainVars, stepVars, pipeVars, orderVars, raceVars>>

notStepVars == <<mainVars, layoutVars, pipeVars, orderVars, raceVars>>

notPipeVars == <<mainVars, layoutVars, stepVars, orderVars, raceVars>>

notOrderVars == <<mainVars, layoutVars, stepVars, pipeVars, raceVars>>

notRaceVars == <<mainVars, layoutVars, stepVars, pipeVars, orderVars>>

\* run_full_pipeline is not being called.
NoAnswer == [status |-> "none", value |-> FALSE]

NoList == [status |-> "none", value |-> <<>>]

OrderIdle ==
    /\ list_of_paths = <<>>
    /\ stat = <<>>
    /\ creation_or_modification = "creation"
    /\ order_result = NoAnswer
    /\ sorted_result = NoList

PipeIdle ==
    /\ fp_args = <<>>
    /\ preprocessed_exists = FALSE
    /\ singularity_installed = FALSE
    /\ fpc = "idle"
    /\ stage_log = <<>>
    /\ fp_submitted = 0

\* No lookup is under way.
StepIdle ==
    /\ data = <<>>
    /\ step_num = <<>>
    /\ spc = "idle"
    /\ result = <<>>

\* No pipeline run is laid out.
LayoutIdle ==
    /\ sessions_and_runs = <<>>
    /\ concat_sessions = FALSE
    /\ concat_runs = FALSE
    /\ lpc = "idle"
    /\ todo = <<>>
    /\ derivs = {}
    /\ outputs = {}
    /\ sorted_units = <<>>

\* Dispatch and process state the steps of the loop leave alone.
envVars == <<sorter_arg, slurm_installed, platform, slurm_logs, cur, waiters, jobInfo, userCwd, jobCwd, cwdStart, userMode, sideVars>>

\* Job ids; a job's submitter is the call with the next lower id.
JobIds == 1..MaxJobs

\* ------------------------------------------------------------ filesystem
Absent == [is_dir |-> FALSE, files |-> {}, manifest |-> {}]

EmptyDir == [is_dir |-> TRUE, files |-> {}, manifest |-> {}]

CompleteOutput(g) == [is_dir |-> TRUE, files |-> {g}, manifest |-> {g}]

\* The two invocations of run_sorting that run at the same time.
Invocations == {"a", "b"}

RaceIdle ==
    /\ race_disk = [u \in Units |-> Absent]
    /\ race_mode = "fail_if_exists"
    /\ race_pc = [p \in Invocations |-> "idle"]
    /\ race_idx = [p \in Invocations |-> 0]
    /\ race_seen = [p \in Invocations |-> [u \in Units |-> FALSE]]

\* sorting_data.get_sorting_path(run_name): one path per sorting unit.
get_sorting_path(run_name) == run_name

\* output_path = sorting_data.get_sorting_path(run_name), taken inside the
\* loop for the current run_name.  (Faulty variant: taken once, for the first
\* run_name.)
OutputPathFirstRun(run_name) == get_sorting_path(1)

OutputPath(run_name) == get_sorting_path(run_name)

\* output_path.is_dir().  (Faulty variant: is_file(), never true of a folder.)
is_dir_as_is_file(d, p) == FALSE

is_dir(d, p) == d[p].is_dir

\* ------------------------------------------------ existing-output policy
\* TRUE when both assertions of quick_safety_check pass.
quick_safety_check(existing_sorting_output, path_is_dir) ==
    /\ existing_sorting_output # "fail_if_exists"
    /\ (existing_sorting_output = "load_if_exists" => ~path_is_dir)

\* Faulty variants of the loop body's branches: fail_if_exists passing over
\* the unit instead of raising, and the load_if_exists branch missing.
UnitOutcomeFailContinues(existing_sorting_output, path_is_dir) ==
    IF path_is_dir
    THEN IF existing_sorting_output \in {"fail_if_exists", "load_if_exists"}
         THEN "LoadExisting"
         ELSE "ProceedFresh"
    ELSE "ProceedFresh"

UnitOutcomeNoLoadBranch(existing_sorting_output, path_is_dir) ==
    IF path_is_dir
    THEN IF existing_sorting_output = "fail_if_exists"
         THEN "Fail"
         ELSE IF quick_safety_check(existing_sorting_output, path_is_dir)
              THEN "ProceedFresh"
              ELSE "AssertionError"
    ELSE "ProceedFresh"

\* The branch the body of `for run_name in sorting_run_names()` takes.
UnitOutcome(existing_sorting_output, path_is_dir) ==
    IF path_is_dir
    THEN IF existing_sorting_output = "fail_if_exists"
         THEN "Fail"
         ELSE IF existing_sorting_output = "load_if_exists"
              THEN "LoadExisting"
              ELSE IF quick_safety_check(existing_sorting_output, path_is_dir)
                   THEN "ProceedFresh"
                   ELSE "AssertionError"
    ELSE "ProceedFresh"

\* ss.run_sorter(..., output_folder=output_path, remove_existing_folder=True):
\* an existing output folder is deleted as a whole, then created anew.  The
\* manifest goes with it: the persisted layout keeps sorting_info.yaml inside
\* the sorter's folder.  (Faulty variant: the sorter writes into the folder
\* it finds.)
RunSorterFolderKeepsOld(entry) == [entry EXCEPT !.is_dir = TRUE]

RunSorterFolder(entry) == EmptyDir

\* The manifest of a unit whose ss.run_sorter call raised: the exception is
\* not caught, so sorting_data.save_sorting_info(run_name) on the next line
\* is not reached.  (Faulty variant: the manifest is saved all the same, as
\* in a `finally`.)
ManifestAfterSorterErrorSaved(manifest, g) == {g}

ManifestAfterSorterError(manifest, g) == manifest

supported_sorters ==
    {"kilosort2", "kilosort2_5", "kilosort3", "mountainsort5", "spykingcircus", "tridesclous"}

\* The sorter names a caller passes: one of the list, one outside it.
SorterNames == {"kilosort2_5", "kilosort4"}

\* validate_inputs: assert slurm_batch is False, "SLURM run has slurm_batch
\* set True"; assert sorter in supported_sorters.  TRUE when both pass.
validate_inputs(b, s) == b = FALSE /\ s \in supported_sorters

\* ------------------------------------------------------- batch dispatch
\* run_in_slurm(slurm_opts, func_to_run, func_opts, log_base_path): where the
\* caller is left, whether the job log folder was made and whether a job was
\* submitted.  (Faulty variants: the is_slurm_installed() test placed after
\* the submission; job.wait() left out.)
run_in_slurm_checks_late(installed, should_wait) ==
    [pc |-> IF ~installed THEN "raised" ELSE IF should_wait THEN "waiting" ELSE "returned",
     log_path_made |-> TRUE,
     job_submitted |-> TRUE]

run_in_slurm_never_waits(installed, should_wait) ==
    IF ~installed
    THEN [pc |-> "raised", log_path_made |-> FALSE, job_submitted |-> FALSE]
    ELSE [pc |-> "returned", log_path_made |-> TRUE, job_submitted |-> TRUE]

run_in_slurm(installed, should_wait) ==
    IF ~installed
    THEN [pc |-> "raised", log_path_made |-> FALSE, job_submitted |-> FALSE]
    ELSE [pc |-> IF should_wait THEN "waiting" ELSE "returned",
          log_path_made |-> TRUE,
          job_submitted |-> TRUE]

\* function(**func_opts) in the job: existing_sorting_output is the one the
\* submitter was called with.  (Faulty variant: not forwarded, so the job
\* runs with the default of run_sorting.)
JobModeDefault(job) == "fail_if_exists"

JobMode(job) == job.mode

\* The working directory of the process after the entry of run_sorting: the
\* batch branch returns before os.chdir(sorting_data.base_path), and so does
\* a call whose validate_inputs raised.
CwdAfterEntry(b, s, cwd_now) ==
    IF b \/ ~validate_inputs(b, s) THEN cwd_now ELSE "base_path"

NoJobs == [j \in JobIds |-> [submitted |-> FALSE, wait |-> FALSE, returned |-> FALSE]]

\* ------------------------------------------------------- sorter invocation
Platforms == {"Linux", "Windows"}

\* singularity_image, docker_image = get_image_run_settings(sorter): the
\* container the platform can run, one of the two and never both.
get_image_run_settings(sorter_name, system) ==
    IF system = "Linux"
    THEN [singularity_image |-> "True", docker_image |-> "None"]
    ELSE [singularity_image |-> "None", docker_image |-> "True"]

\* The keyword arguments of ss.run_sorter in run_sorting_on_all_runs: the
\* image settings as run_sorting passed them, remove_existing_folder=True.
\* (Faulty variant: docker_image=True whatever was passed.)
run_sorter_kwargs_docker_always(output_path, image) ==
    [output_folder |-> output_path,
     singularity_image |-> image.singularity_image,
     docker_image |-> "True",
     remove_existing_folder |-> TRUE]

run_sorter_kwargs(output_path, image) ==
    [output_folder |-> output_path,
     singularity_image |-> image.singularity_image,
     docker_image |-> image.docker_image,
     remove_existing_folder |-> TRUE]

\* sorting_data.save_sorting_info(run_name), called before the loop goes on
\* to the next run_name: the unit's manifest is written.  (Faulty variant:
\* nothing is written by the time the next unit is taken up.)
save_sorting_info_deferred(entry, g) == entry

save_sorting_info(entry, g) == [entry EXCEPT !.manifest = {g}]

\* ---------------------------------------------------------------- errors
\* An exception as the caller of run_sorting sees it: its type, and the
\* output path and the mode its message names (0 and "none": not named).
Error(type) == [type |-> type, path |-> 0, mode |-> "none"]

NoError == Error("none")

\* raise RuntimeError(f"Sorting output already exists at {output_path} and
\* `existing_sorting_output` is set to 'fail_if_exists'.")
FailError(output_path, existing_sorting_output) ==
    [type |-> "RuntimeError", path |-> output_path, mode |-> "fail_if_exists"]

\* What ss.run_sorter raises passes through run_sorting_on_all_runs and
\* run_sorting as it is: nothing catches it.  Whether its message names the
\* output folder is the sorter's choice.
SorterFailure(output_path, names_folder) ==
    [type |-> "SpikeSortingError", path |-> IF names_folder THEN output_path ELSE 0, mode |-> "none"]

\* ------------------------------------------------------------------ Init
NoHistory ==
    /\ seenExists' = [u \in Units |-> FALSE]
    /\ decision' = [u \in Units |-> "None"]
    /\ visit_order' = <<>>
    /\ calls' = {}
    /\ run_sorter_calls' = <<>>
    /\ saved' = {}
    /\ raisedAt' = 0
    /\ sorterFailed' = {}
    /\ sorterReturned' = {}
    /\ snap' = disk

Init ==
    /\ disk \in [Units -> {Absent, CompleteOutput(0)}]
    /\ inv = 0
    /\ mode = "fail_if_exists"
    /\ slurm_batch = FALSE
    /\ sorter_arg = "kilosort2_5"
    /\ inJob = FALSE
    /\ pc = "idle"
    /\ idx = 0
    /\ seenExists = [u \in Units |-> FALSE]
    /\ decision = [u \in Units |-> "None"]
    /\ visit_order = <<>>
    /\ calls = {}
    /\ run_sorter_calls = <<>>
    /\ saved = {}
    /\ raisedAt = 0
    /\ raisedError = NoError
    /\ sorterFailed = {}
    /\ sorterReturned = {}
    /\ snap = disk
    /\ prevDone = FALSE
    /\ pending = <<>>
    /\ submitted = 0
    /\ resubmitted = 0
    /\ slurm_installed \in BOOLEAN
    /\ platform \in Platforms
    /\ slurm_logs = FALSE
    /\ cur = 0
    /\ waiters = <<>>
    /\ jobInfo = NoJobs
    /\ userCwd = "start"
    /\ jobCwd = "start"
    /\ cwdStart = "start"
    /\ userMode = "fail_if_exists"
    /\ LayoutIdle
    /\ StepIdle
    /\ PipeIdle
    /\ OrderIdle
    /\ RaceIdle

Terminal == {"idle", "done", "raised", "cancelled", "returned"}

Running == {"loop", "sorting", "save"}

\* --------------------------------------------------------------- actions
\* Job j has been submitted and has reached a terminal state: it is neither
\* queued, nor running, nor blocked in job.wait().
JobTerminal(j) ==
    /\ jobInfo[j].submitted
    /\ \A k \in 1..Len(pending) : pending[k].id # j
    /\ \A k \in 1..Len(waiters) : waiters[k] # j
    /\ ~(cur = j /\ pc \notin Terminal)

\* run_sorting(..., sorter=s, existing_sorting_output=m, slurm_batch=b), from its
\* first line to the call of run_sorting_on_all_runs or the early return.
\* `c` is the caller (0 the user, j job j, a fresh process), `rest` the job
\* queue without that job, `sub` the submissions counted so far, `info` the
\* job table the call starts from.
run_sorting(m, b, s, c, rest, sub, info) ==
    /\ mode' = m
    /\ sorter_arg' = s
    /\ slurm_batch' = b
    /\ inJob' = (c > 0)
    /\ cur' = c
    /\ NoHistory
    /\ UNCHANGED <<disk, slurm_installed, platform>>
    /\ LET cwd0 == IF c = 0 THEN userCwd ELSE "start"
       IN  /\ cwdStart' = cwd0
           /\ userCwd' = IF c = 0 THEN CwdAfterEntry(b, s, cwd0) ELSE userCwd
           /\ jobCwd' = IF c > 0 THEN CwdAfterEntry(b, s, cwd0) ELSE "start"
    /\ IF b
       THEN \* if slurm_batch: slurm.run_sorting_slurm(**local_args); return
            /\ sub < MaxJobs
            /\ \E should_wait \in BOOLEAN, func_opts_slurm_batch \in BOOLEAN :
                   LET r == run_in_slurm(slurm_installed, should_wait)
                   IN  /\ pc' = r.pc
                       /\ raisedError' = IF r.pc = "raised" THEN Error("RuntimeError") ELSE NoError
                       /\ slurm_logs' = (slurm_logs \/ r.log_path_made)
                       /\ pending' = IF r.job_submitted
                                     THEN Append(rest, [id |-> sub + 1, mode |-> m, slurm_batch |-> func_opts_slurm_batch])
                                     ELSE rest
                       /\ submitted' = IF r.job_submitted THEN sub + 1 ELSE sub
                       /\ resubmitted' = IF c = 0 THEN 0
                                         ELSE IF r.job_submitted THEN resubmitted + 1 ELSE resubmitted
                       /\ jobInfo' = IF r.job_submitted
                                     THEN [info EXCEPT ![sub + 1] = [submitted |-> TRUE, wait |-> should_wait, returned |-> r.pc # "waiting"]]
                                     ELSE info
                       /\ waiters' = IF r.pc = "waiting" THEN Append(waiters, c) ELSE waiters
            /\ idx' = 0
            /\ prevDone' = FALSE
            /\ UNCHANGED inv
       ELSE \* validate_inputs(...); os.chdir; run_sorting_on_all_runs(...)
            /\ inv < MaxInv
            /\ inv' = IF validate_inputs(b, s) THEN inv + 1 ELSE inv
            /\ pc' = IF validate_inputs(b, s) THEN "loop" ELSE "raised"
            /\ raisedError' = IF validate_inputs(b, s) THEN NoError ELSE Error("AssertionError")
            /\ idx' = IF validate_inputs(b, s) THEN 1 ELSE 0
            /\ prevDone' = (pc = "done")
            /\ pending' = rest
            /\ submitted' = sub
            /\ resubmitted' = IF c > 0 THEN resubmitted ELSE 0
            /\ jobInfo' = info
            /\ UNCHANGED <<slurm_logs, waiters>>

\* The user calls run_sorting.
UserCall ==
    /\ pc \in Terminal
    /\ pending = <<>>
    /\ waiters = <<>>
    /\ \E m \in Modes, b \in BOOLEAN, s \in SorterNames :
           /\ userMode' = m
           /\ run_sorting(m, b, s, 0, <<>>, 0, NoJobs)
    /\ UNCHANGED sideVars

\* The scheduler runs a submitted job: function(**func_opts).
JobRun ==
    /\ pc \in Terminal \cup {"waiting"}
    /\ pending # <<>>
    /\ run_sorting(JobMode(Head(pending)), Head(pending).slurm_batch, sorter_arg, Head(pending).id, Tail(pending), submitted, jobInfo)
    /\ UNCHANGED <<userMode, sideVars>>

\* job.wait() returns to the innermost blocked caller once the job it
\* submitted has reached a terminal state; run_in_slurm and the caller's
\* run_sorting then return.
WaitReturn ==
    /\ waiters # <<>>
    /\ pc \in Terminal
    /\ LET c == waiters[Len(waiters)]
       IN  /\ JobTerminal(c + 1)
           /\ waiters' = SubSeq(waiters, 1, Len(waiters) - 1)
           /\ jobInfo' = [jobInfo EXCEPT ![c + 1].returned = TRUE]
           /\ cur' = c
           /\ inJob' = (c > 0)
           /\ cwdStart' = IF c = 0 THEN userCwd ELSE "start"
    /\ slurm_batch' = TRUE
    /\ pc' = "returned"
    /\ idx' = 0
    /\ prevDone' = FALSE
    /\ jobCwd' = "start"
    /\ raisedError' = NoError
    /\ NoHistory
    /\ UNCHANGED <<disk, inv, mode, sorter_arg, pending, submitted, resubmitted, slurm_installed, platform, slurm_logs, userCwd, userMode, sideVars>>

\* One pass of the loop body up to the point where ss.run_sorter has been
\* called and has prepared its output folder.
ProcessUnit ==
    /\ pc = "loop"
    /\ idx \in Units
    /\ LET p == OutputPath(idx)
           e == is_dir(disk, p)
           o == UnitOutcome(mode, e)
       IN  /\ seenExists' = [seenExists EXCEPT ![idx] = e]
           /\ visit_order' = Append(visit_order, idx)
           /\ decision' = [decision EXCEPT ![idx] = o]
           /\ CASE o = "Fail" ->
                     /\ pc' = "raised"
                     /\ raisedAt' = idx
                     /\ raisedError' = FailError(p, mode)
                     /\ UNCHANGED <<disk, idx, calls, run_sorter_calls>>
                [] o = "AssertionError" ->
                     /\ pc' = "raised"
                     /\ raisedAt' = idx
                     /\ raisedError' = Error("AssertionError")
                     /\ UNCHANGED <<disk, idx, calls, run_sorter_calls>>
                [] o = "LoadExisting" ->
                     /\ pc' = "loop"
                     /\ idx' = idx + 1
                     /\ UNCHANGED <<disk, raisedAt, raisedError, calls, run_sorter_calls>>
                [] OTHER ->
                     /\ pc' = "sorting"
                     /\ calls' = calls \cup {idx}
                     /\ run_sorter_calls' = Append(run_sorter_calls,
                            [unit |-> idx, existed |-> e,
                             kwargs |-> run_sorter_kwargs(p, get_image_run_settings(sorter_arg, platform))])
                     /\ disk' = [disk EXCEPT ![p] = RunSorterFolder(disk[p])]
                     /\ UNCHANGED <<idx, raisedAt, raisedError>>
    /\ UNCHANGED <<inv, mode, slurm_batch, inJob, saved, sorterFailed, sorterReturned, snap, prevDone, pending, submitted, resubmitted>>
    /\ UNCHANGED envVars

\* ss.run_sorter returns: the output folder holds this invocation's output.
SorterReturn ==
    /\ pc = "sorting"
    /\ disk' = [disk EXCEPT ![OutputPath(idx)].files = @ \cup {inv}]
    /\ pc' = "save"
    /\ sorterReturned' = sorterReturned \cup {idx}
    /\ UNCHANGED <<inv, mode, slurm_batch, inJob, idx, seenExists, decision, visit_order, calls, run_sorter_calls, saved, raisedAt, raisedError, sorterFailed, snap, prevDone, pending, submitted, resubmitted>>
    /\ UNCHANGED envVars

\* ss.run_sorter raises: the folder is left empty or partially written, and
\* the exception leaves run_sorting_on_all_runs and run_sorting.
SorterError ==
    /\ pc = "sorting"
    /\ \E partial \in BOOLEAN :
           disk' = [disk EXCEPT ![OutputPath(idx)].files = IF partial THEN @ \cup {inv} ELSE @,
                                ![OutputPath(idx)].manifest = ManifestAfterSorterError(@, inv)]
    /\ pc' = "raised"
    /\ raisedAt' = idx
    /\ \E names_folder \in BOOLEAN :
           raisedError' = SorterFailure(OutputPath(idx), names_folder)
    /\ sorterFailed' = sorterFailed \cup {idx}
    /\ UNCHANGED <<inv, mode, slurm_batch, inJob, idx, seenExists, decision, visit_order, calls, run_sorter_calls, saved, sorterReturned, snap, prevDone, pending, submitted, resubmitted>>
    /\ UNCHANGED envVars

\* sorting_data.save_sorting_info(run_name), then the next iteration.
SaveSortingInfo ==
    /\ pc = "save"
    /\ disk' = [disk EXCEPT ![OutputPath(idx)] = save_sorting_info(@, inv)]
    /\ saved' = saved \cup {idx}
    /\ idx' = idx + 1
    /\ pc' = "loop"
    /\ UNCHANGED <<inv, mode, slurm_batch, inJob, seenExists, decision, visit_order, calls, run_sorter_calls, raisedAt, raisedError, sorterFailed, sorterReturned, snap, prevDone, pending, submitted, resubmitted>>
    /\ UNCHANGED envVars

\* The loop is exhausted; run_sorting returns sorting_data.
LoopEnd ==
    /\ pc = "loop"
    /\ idx = NUnits + 1
    /\ pc' = "done"
    /\ UNCHANGED <<disk, inv, mode, slurm_batch, inJob, idx, seenExists, decision, visit_order, calls, run_sorter_calls, saved, raisedAt, raisedError, sorterFailed, sorterReturned, snap, prevDone, pending, submitted, resubmitted>>
    /\ UNCHANGED envVars

\* The process is terminated from outside at a blocking point.
Cancel ==
    /\ pc \in Running
    /\ pc' = "cancelled"
    /\ UNCHANGED <<disk, inv, mode, slurm_batch, inJob, idx, seenExists, decision, visit_order, calls, run_sorter_calls, saved, raisedAt, raisedError, sorterFailed, sorterReturned, snap, prevDone, pending, submitted, resubmitted>>
    /\ UNCHANGED envVars

Next ==
    \/ UserCall
    \/ JobRun
    \/ WaitReturn
    \/ ProcessUnit
    \/ SorterReturn
    \/ SorterError
    \/ SaveSortingInfo
    \/ LoopEnd
    \/ Cancel

Spec == Init /\ [][Next]_vars

\* ------------------------------------------------------- claim vocabulary
\* The unit's output directory existed when the current call started.
ExistedAtStart(u) == snap[get_sorting_path(u)].is_dir

\* The loop body has run for the unit in the current call.
Visited(u) == decision[u] # "None"

\* The action the policy table of the specification gives.
TabulatedAction(path_exists, m) ==
    IF ~path_exists
    THEN "ProceedFresh"
    ELSE CASE m = "fail_if_exists" -> "Fail"
           [] m = "overwrite" -> "ProceedFresh"
           [] m = "load_if_exists" -> "LoadExisting"
           [] OTHER -> "Skip"

\* C1: for every (directory exists, mode) pair, the branch the loop body takes
\* for a visited unit is the tabulated action, and ss.run_sorter is invoked
\* for the unit exactly when that action is ProceedFresh.
C1_PolicyTruthTable ==
    \A u \in Units :
        Visited(u) =>
            /\ decision[u] = TabulatedAction(seenExists[u], mode)
            /\ (u \in calls <=> TabulatedAction(seenExists[u], mode) = "ProceedFresh")

\* C2: a unit whose output directory exists, visited under fail_if_exists,
\* raises: the call is in its raised state because of that unit, ss.run_sorter
\* was not invoked for it and no manifest was saved for it.
C2_FailFast ==
    \A u \in Units :
        (Visited(u) /\ ExistedAtStart(u) /\ mode = "fail_if_exists") =>
            /\ pc = "raised"
            /\ raisedAt = u
            /\ u \notin calls
            /\ u \notin saved

C2_Witness ==
    \E u \in Units :
        /\ Visited(u) /\ ExistedAtStart(u) /\ mode = "fail_if_exists"
        /\ pc = "raised" /\ raisedAt = u

\* C3: a unit whose output directory exists, visited under load_if_exists, is
\* passed over: the loop has moved past it without raising, ss.run_sorter and
\* save_sorting_info were not called for it, and its directory is as it was
\* when the call started.
C3_LoadIfExistsContinues ==
    \A u \in Units :
        (Visited(u) /\ ExistedAtStart(u) /\ mode = "load_if_exists") =>
            /\ decision[u] = "LoadExisting"
            /\ idx > u
            /\ raisedAt # u
            /\ u \notin calls
            /\ u \notin saved
            /\ disk[get_sorting_path(u)] = snap[get_sorting_path(u)]

C3_Witness ==
    \E u \in Units :
        /\ Visited(u) /\ ExistedAtStart(u) /\ mode = "load_if_exists"
        /\ pc = "done"
        /\ disk[get_sorting_path(u)] = CompleteOutput(0)

\* C4: when the previous call ran the loop to completion and the current call
\* uses load_if_exists, the current call invokes ss.run_sorter for no unit,
\* saves no manifest, and the disk stays as the previous call left it.
C4_Idempotence ==
    (prevDone /\ mode = "load_if_exists") =>
        /\ calls = {}
        /\ saved = {}
        /\ disk = snap

C4_Witness ==
    /\ prevDone /\ mode = "load_if_exists" /\ pc = "done"
    /\ \E u \in Units : disk[get_sorting_path(u)] = CompleteOutput(1)
    /\ \A u \in Units : decision[u] = "LoadExisting"

\* C5: in every reachable state, the states between ss.run_sorter returning
\* and save_sorting_info completing and those after a sorter failure or a
\* cancellation included, each unit's output directory and its manifest are
\* both visible or both absent.  (The unit ss.run_sorter is working on right
\* now is left out: the claim is only read for the states around the call.)
C5_ManifestArtifactPair ==
    \A u \in Units :
        \/ (pc = "sorting" /\ idx = u)
        \/ (disk[get_sorting_path(u)].is_dir <=> disk[get_sorting_path(u)].manifest # {})

\* C6: under overwrite, once ss.run_sorter has been invoked for a unit whose
\* directory existed, nothing written before the current call remains in the
\* directory: every file in it is of the current generation.
C6_OverwriteRemovesWholeFolder ==
    \A u \in Units :
        (mode = "overwrite" /\ ExistedAtStart(u) /\ u \in calls) =>
            disk[get_sorting_path(u)].files \subseteq {inv}

C6_Witness ==
    \E u \in Units :
        /\ mode = "overwrite" /\ ExistedAtStart(u) /\ u \in saved
        /\ snap[get_sorting_path(u)] = CompleteOutput(0)
        /\ disk[get_sorting_path(u)] = CompleteOutput(inv)

\* C7: a step that processes one unit under overwrite leaves the output
\* directory and manifest of every other unit as they were.
C7_DestructivenessContainment ==
    [][(pc \in Running /\ mode = "overwrite") =>
           \A v \in Units :
               v # idx => disk'[get_sorting_path(v)] = disk[get_sorting_path(v)]]_vars

C7_Witness ==
    \E u, v \in Units :
        /\ u # v
        /\ mode = "overwrite" /\ ExistedAtStart(u) /\ u \in saved
        /\ disk[get_sorting_path(u)] = CompleteOutput(inv)
        /\ ExistedAtStart(v)
        /\ disk[get_sorting_path(v)] = CompleteOutput(0)

\* C8 as stated: if any unit's output directory exists when the call starts
\* under fail_if_exists, no ss.run_sorter call is made for any unit and the
\* disk stays as it was when the call started.
C8_FailBeforeAnyCall ==
    (mode = "fail_if_exists" /\ \E u \in Units : ExistedAtStart(u)) =>
        /\ calls = {}
        /\ disk = snap

\* C8 as amended: when the loop reaches a unit whose output directory exists
\* under fail_if_exists, the call raises with no ss.run_sorter call for that
\* unit or any later unit, whose directories and manifests stay as they were
\* when the call started; the units before it have been processed.
C8_FailAtFirstExistingUnit ==
    \A u \in Units :
        (Visited(u) /\ ExistedAtStart(u) /\ mode = "fail_if_exists") =>
            /\ pc = "raised"
            /\ \A v \in Units :
                   v >= u =>
                       /\ v \notin calls
                       /\ disk[get_sorting_path(v)] = snap[get_sorting_path(v)]
            /\ \A v \in Units : v < u => (v \in saved /\ ~ExistedAtStart(v))

C8_Witness ==
    \E u, v \in Units :
        /\ v < u
        /\ Visited(u) /\ ExistedAtStart(u) /\ mode = "fail_if_exists"
        /\ pc = "raised"
        /\ v \in calls
        /\ disk[get_sorting_path(v)] = CompleteOutput(inv)

\* C9: once the processing of a unit has raised (its directory exists under
\* fail_if_exists, or ss.run_sorter failed for it), the call is in its raised
\* state and no later unit has been visited, sorted or given a manifest.
C9_NoCrossUnitContinuation ==
    \A u \in Units :
        ((Visited(u) /\ ExistedAtStart(u) /\ mode = "fail_if_exists") \/ u \in sorterFailed) =>
            /\ pc = "raised"
            /\ \A v \in Units :
                   v > u => (~Visited(v) /\ v \notin calls /\ v \notin saved)

C9_Witness ==
    \E u, v \in Units :
        /\ v > u
        /\ u \in sorterFailed
        /\ pc = "raised"
        /\ ~ExistedAtStart(v)
        /\ ~Visited(v)

\* C10: code running inside a submitted job never submits a job, so a user
\* call leads to at most one submitted job.
C10_ReentrancyGuard ==
    /\ resubmitted = 0
    /\ submitted <= 1

\* Working directory of the process that makes the current call.
CallerCwd == IF cur = 0 THEN userCwd ELSE jobCwd

\* C11 -- Batch dispatch.  A call with slurm_batch=True invokes no sorter,
\* changes nothing on disk and leaves the working directory of the calling
\* process as it was.  The submitter of a job submitted without `wait` has
\* left run_in_slurm as soon as the job is submitted; the submitter of a job
\* submitted with `wait` has left run_in_slurm only if the job has reached a
\* terminal state.
C11_BatchDispatch ==
    /\ slurm_batch =>
           /\ pc \notin Running \cup {"done"}
           /\ calls = {}
           /\ disk = snap
           /\ CallerCwd = cwdStart
    /\ \A j \in JobIds :
           jobInfo[j].submitted =>
               /\ ~jobInfo[j].wait => jobInfo[j].returned
               /\ (jobInfo[j].wait /\ jobInfo[j].returned) => JobTerminal(j)

\* The user submitted job 1 with `wait`, the job ran the sorter, and the
\* user's call has returned.
C11_Witness ==
    /\ slurm_batch
    /\ cur = 0
    /\ pc = "returned"
    /\ jobInfo[1].wait
    /\ jobInfo[1].returned
    /\ inv > 0

\* What the user's call decides for unit u when executed inline on the
\* filesystem state the current call started from.
InlineDecision(u) == UnitOutcome(userMode, ExistedAtStart(u))

C13_NoSlurmFailsBeforeSubmit ==
    ~slurm_installed =>
        /\ ~slurm_logs
        /\ pending = <<>>
        /\ submitted = 0
        /\ \A j \in JobIds : ~jobInfo[j].submitted
        /\ (slurm_batch /\ pc # "idle") => pc = "raised"

\* The user asked for batch dispatch on a system without SLURM and the call
\* raised.
C13_Witness ==
    /\ ~slurm_installed
    /\ slurm_batch
    /\ cur = 0
    /\ pc = "raised"

\* C14 -- Working-directory restore.  Once a call of run_sorting has ended,
\* by normal return, by a Fail decision or by a sorter failure, the working
\* directory of the calling process is what it was when the call began.
C14_CwdRestored ==
    pc \in {"done", "raised"} => CallerCwd = cwdStart

\* ============================================================ folder layout
\* One pipeline run over a tree of sessions and runs: which folders it
\* leaves below <base>/derivatives/<subject>, for each combination of the
\* two concatenation flags.

MaxSes == 2
MaxRuns == 2

sub_name == "sub-1119617"
sorter == "kilosort2_5"
ConcatTag == "sorting-concat"
SesNames == {"ses-001", "ses-002", "logs"}
RunNames == {"run-001", "run-002"}

\* Sequences of 1..n distinct elements of S.
SeqsNoDup(S, n) ==
    {q \in UNION {[1..k -> S] : k \in 1..n} :
        \A i, j \in DOMAIN q : i # j => q[i] # q[j]}

\* sessions_and_runs as a user can pass it: sessions in the order of the
\* dict, each with its runs in the order of its list.
Trees ==
    {t \in UNION {[1..k -> [ses : SesNames, runs : SeqsNoDup(RunNames, MaxRuns)]] : k \in 1..MaxSes} :
        \A i, j \in DOMAIN t : i # j => t[i].ses # t[j].ses}

Keys(t) == {t[i].ses : i \in DOMAIN t}

RECURSIVE Flatten(_)
Flatten(seqs) ==
    IF seqs = <<>> THEN <<>> ELSE Head(seqs) \o Flatten(Tail(seqs))

\* concatenate_recordings(recording_list): the segments of the recordings,
\* one after the other.  (Faulty variant: the last recording first.)
RECURSIVE concatenate_recordings_reversed(_)
concatenate_recordings_reversed(recording_list) ==
    IF recording_list = <<>> THEN <<>>
    ELSE concatenate_recordings_reversed(Tail(recording_list)) \o Head(recording_list)

concatenate_recordings(recording_list) == Flatten(recording_list)

SubPath == <<"derivatives", sub_name>>

get_logging_path == SubPath \o <<"logs">>

\* PathResolver: the sorter output path of a sorting unit.
resolve(scope, ses, run) ==
    CASE scope = "run"     -> SubPath \o <<ses, run, sorter>>
      [] scope = "session" -> SubPath \o <<ses, ConcatTag, sorter>>
      [] scope = "subject" -> SubPath \o <<ConcatTag, sorter>>

\* The recording of a session: one segment per run, in the order passed.
SessionRecording(s) == [j \in DOMAIN s.runs |-> <<s.ses, s.runs[j]>>]

SortingUnit(scope, ses, run, segments) ==
    [scope |-> scope, ses |-> ses, run |-> run, segments |-> segments,
     path |-> resolve(scope, ses, run)]

\* ConcatenationBuilder.build(tree, concat_runs, concat_sessions).
build(t, cr, cs) ==
    IF cs
    THEN <<SortingUnit("subject", "", "",
                       concatenate_recordings([i \in DOMAIN t |-> SessionRecording(t[i])]))>>
    ELSE IF cr
    THEN [i \in DOMAIN t |->
             SortingUnit("session", t[i].ses, "",
                         concatenate_recordings(<<SessionRecording(t[i])>>))]
    ELSE Flatten([i \in DOMAIN t |->
                     [j \in DOMAIN t[i].runs |->
                         SortingUnit("run", t[i].ses, t[i].runs[j],
                                     <<<<t[i].ses, t[i].runs[j]>>>>)]])

\* A folder and the folders above it.
WithParents(path) == {SubSeq(path, 1, k) : k \in 1..Len(path)}

\* ss.run_sorter(..., output_folder=output_path): the folder the sorter
\* writes.  (Faulty variant: the base path's own folder of that sorter.)
run_sorter_output_in_cwd(output_path) == <<sorter>>

run_sorter_output_folder(output_path) == output_path

\* The orchestrator is idle while a pipeline run is laid out.
MainIdle ==
    /\ disk = [u \in Units |-> Absent]
    /\ inv = 0
    /\ mode = "fail_if_exists"
    /\ slurm_batch = FALSE
    /\ sorter_arg = "kilosort2_5"
    /\ inJob = FALSE
    /\ pc = "idle"
    /\ idx = 0
    /\ seenExists = [u \in Units |-> FALSE]
    /\ decision = [u \in Units |-> "None"]
    /\ visit_order = <<>>
    /\ calls = {}
    /\ run_sorter_calls = <<>>
    /\ saved = {}
    /\ raisedAt = 0
    /\ raisedError = NoError
    /\ sorterFailed = {}
    /\ sorterReturned = {}
    /\ snap = disk
    /\ prevDone = FALSE
    /\ pending = <<>>
    /\ submitted = 0
    /\ resubmitted = 0
    /\ slurm_installed = FALSE
    /\ platform = "Linux"
    /\ slurm_logs = FALSE
    /\ cur = 0
    /\ waiters = <<>>
    /\ jobInfo = NoJobs
    /\ userCwd = "start"
    /\ jobCwd = "start"
    /\ cwdStart = "start"
    /\ userMode = "fail_if_exists"

LayoutInit ==
    /\ MainIdle
    /\ StepIdle
    /\ PipeIdle
    /\ OrderIdle
    /\ RaceIdle
    /\ sessions_and_runs \in Trees
    /\ concat_sessions \in BOOLEAN
    /\ concat_runs \in BOOLEAN
    /\ lpc = "start"
    /\ todo = <<>>
    /\ derivs = {}
    /\ outputs = {}
    /\ sorted_units = <<>>

\* The run folders of a session, with the folders above them.
RunFolders(s) == UNION {WithParents(SubPath \o <<s.ses, s.runs[j]>>) : j \in DOMAIN s.runs}

\* The logger is started, every run is preprocessed into its run folder, and
\* the sorting units are built.
StartPipeline ==
    /\ lpc = "start"
    /\ lpc' = "sorting"
    /\ derivs' = WithParents(get_logging_path)
                 \cup UNION {RunFolders(sessions_and_runs[i]) : i \in DOMAIN sessions_and_runs}
    /\ todo' = build(sessions_and_runs, concat_runs, concat_sessions)
    /\ UNCHANGED <<sessions_and_runs, concat_sessions, concat_runs, outputs, sorted_units, notLayoutVars>>

\* One pass of the loop over the sorting units: the sorter is invoked on
\* the unit's segments and writes its output folder.
SortNextUnit ==
    /\ lpc = "sorting"
    /\ todo # <<>>
    /\ LET unit == Head(todo)
           folder == run_sorter_output_folder(unit.path)
       IN  /\ derivs' = derivs \cup WithParents(folder)
           /\ outputs' = outputs \cup {folder}
           /\ sorted_units' = Append(sorted_units, [unit EXCEPT !.path = folder])
    /\ todo' = Tail(todo)
    /\ UNCHANGED <<sessions_and_runs, concat_sessions, concat_runs, lpc, notLayoutVars>>

FinishPipeline ==
    /\ lpc = "sorting"
    /\ todo = <<>>
    /\ lpc' = "done"
    /\ UNCHANGED <<sessions_and_runs, concat_sessions, concat_runs, todo, derivs, outputs, sorted_units, notLayoutVars>>

LayoutNext ==
    \/ StartPipeline
    \/ SortNextUnit
    \/ FinishPipeline

LayoutSpec == LayoutInit /\ [][LayoutNext]_vars

\* ------------------------------------------------- layout: vocabulary
\* The (session, run) pairs of the tree.
AllRuns == UNION {{<<sessions_and_runs[i].ses, sessions_and_runs[i].runs[j]>> : j \in DOMAIN sessions_and_runs[i].runs} :
                     i \in DOMAIN sessions_and_runs}

IsBelow(path, folder) ==
    /\ Len(path) > Len(folder)
    /\ SubSeq(path, 1, Len(folder)) = folder

\* Names of the entries of a folder.
Entries(folder) == {p[Len(p)] : p \in {q \in derivs : IsBelow(q, folder) /\ Len(q) = Len(folder) + 1}}

\* Sorter output folders anywhere below a folder.
OutputsBelow(folder) == {o \in outputs : IsBelow(o, folder)}

\* Apart from the logs folder, the subject folder holds one folder per
\* session passed, and nothing else but `extra`.
SessionFoldersAreKeys(extra) ==
    /\ Keys(sessions_and_runs) \subseteq Entries(SubPath)
    /\ Entries(SubPath) \ {"logs"} = (Keys(sessions_and_runs) \cup extra) \ {"logs"}

\* C15 -- No concatenation.  With both flags off the sorter is invoked once
\* per run; every run folder holds exactly one sorter output folder, the
\* one named after the sorter; no session folder has a sorting-concat entry;
\* the session folders of the subject are the sessions passed.
C15_PerRunLayout ==
    (lpc = "done" /\ ~concat_sessions /\ ~concat_runs) =>
        /\ Len(sorted_units) = Cardinality(AllRuns)
        /\ \A sr \in AllRuns :
               OutputsBelow(SubPath \o sr) = {SubPath \o sr \o <<sorter>>}
        /\ \A s \in Keys(sessions_and_runs) : ConcatTag \notin Entries(SubPath \o <<s>>)
        /\ Cardinality(outputs) = Cardinality(AllRuns)
        /\ SessionFoldersAreKeys({})

\* Two sessions of two runs each were sorted run by run.
C15_Witness ==
    /\ lpc = "done"
    /\ ~concat_sessions
    /\ ~concat_runs
    /\ Len(sessions_and_runs) = 2
    /\ Len(sorted_units) = 4

\* C16 -- Runs concatenated per session.  With concat_runs on and
\* concat_sessions off the sorter is invoked exactly once per session, on
\* that session; every session folder holds a sorting-concat folder with the
\* sorter output in it; no run folder holds sorter output.
C16_PerSessionLayout ==
    (lpc = "done" /\ concat_runs /\ ~concat_sessions) =>
        /\ Len(sorted_units) = Len(sessions_and_runs)
        /\ \A s \in Keys(sessions_and_runs) :
               /\ Cardinality({k \in DOMAIN sorted_units : sorted_units[k].scope = "session" /\ sorted_units[k].ses = s}) = 1
               /\ ConcatTag \in Entries(SubPath \o <<s>>)
               /\ OutputsBelow(SubPath \o <<s>>) = {SubPath \o <<s, ConcatTag, sorter>>}
        /\ \A sr \in AllRuns : OutputsBelow(SubPath \o sr) = {}
        /\ SessionFoldersAreKeys({})

\* Two sessions, one of them with two runs, were sorted session by session.
C16_Witness ==
    /\ lpc = "done"
    /\ concat_runs
    /\ ~concat_sessions
    /\ Len(sessions_and_runs) = 2
    /\ Len(sessions_and_runs[1].runs) = 2
    /\ Len(sorted_units) = 2

\* C17 -- Sessions concatenated.  With concat_sessions on, whatever
\* concat_runs, the sorter is invoked exactly once, on all runs of all
\* sessions; the subject folder holds one sorting-concat folder with the
\* sorter output in it; no session folder, at any depth, holds sorter output.
C17_SubjectLayout ==
    (lpc = "done" /\ concat_sessions) =>
        /\ Len(sorted_units) = 1
        /\ sorted_units[1].scope = "subject"
        /\ {sorted_units[1].segments[k] : k \in DOMAIN sorted_units[1].segments} = AllRuns
        /\ outputs = {SubPath \o <<ConcatTag, sorter>>}
        /\ \A s \in Keys(sessions_and_runs) : OutputsBelow(SubPath \o <<s>>) = {}
        /\ SessionFoldersAreKeys({ConcatTag})

\* Two sessions were sorted as one unit, with concat_runs off.
C17_Witness ==
    /\ lpc = "done"
    /\ concat_sessions
    /\ ~concat_runs
    /\ Len(sessions_and_runs) = 2
    /\ Len(sorted_units) = 1

\* Position of a session in the dict passed, of a run in its session's list.
SesIndex(s) == CHOOSE i \in DOMAIN sessions_and_runs : sessions_and_runs[i].ses = s

RunIndex(sr) ==
    CHOOSE j \in DOMAIN sessions_and_runs[SesIndex(sr[1])].runs :
        sessions_and_runs[SesIndex(sr[1])].runs[j] = sr[2]

\* Segment x was passed before segment y.
PassedBefore(x, y) ==
    \/ SesIndex(x[1]) < SesIndex(y[1])
    \/ /\ SesIndex(x[1]) = SesIndex(y[1])
       /\ RunIndex(x) < RunIndex(y)

\* The runs a sorting unit spans.
RunsInScope(unit) ==
    CASE unit.scope = "subject" -> AllRuns
      [] unit.scope = "session" -> {sr \in AllRuns : sr[1] = unit.ses}
      [] unit.scope = "run"     -> {<<unit.ses, unit.run>>}

AllUnits ==
    LET UnitsOf(cr, cs) == {build(sessions_and_runs, cr, cs)[k] : k \in DOMAIN build(sessions_and_runs, cr, cs)}
    IN  UnitsOf(FALSE, FALSE) \cup UnitsOf(TRUE, FALSE) \cup UnitsOf(TRUE, TRUE)

\* C19 -- Path uniqueness.  Two distinct sorting units never resolve to the
\* same sorter output path, a concatenated unit's path is never a per-run
\* path, and the logs folder of the subject is never a session folder.
C19_PathUniqueness ==
    lpc = "done" =>
        /\ \A u, v \in AllUnits :
               <<u.scope, u.ses, u.run>> # <<v.scope, v.ses, v.run>> => u.path # v.path
        /\ \A u, v \in AllUnits :
               (u.scope # "run" /\ v.scope = "run") => u.path # v.path
        /\ \A s \in Keys(sessions_and_runs) : get_logging_path # SubPath \o <<s>>

\* ===================================================== step-number lookup
\* get_keys_first_char and get_dict_value_from_step_num, as in
\* spikewrap/utils/utils.py and as in swc_ephys/utils/utils.py, applied to a
\* dict whose keys are "<step number>-<cumulative step name>".  Text is a
\* sequence of characters; a step name's words stand for themselves.

MaxStep == 10

DigitChars == <<"0", "1", "2", "3", "4", "5", "6", "7", "8", "9">>

DigitVal(c) == (CHOOSE i \in DOMAIN DigitChars : DigitChars[i] = c) - 1

\* str(n) for n >= 0.
RECURSIVE str(_)
str(n) ==
    IF n < 10 THEN <<DigitChars[n + 1]>>
    ELSE str(n \div 10) \o <<DigitChars[(n % 10) + 1]>>

\* int(text) for a text of digits.
RECURSIVE int(_)
int(text) ==
    IF Len(text) = 1 THEN DigitVal(text[1])
    ELSE 10 * int(SubSeq(text, 1, Len(text) - 1)) + DigitVal(text[Len(text)])

\* key.split("-")[0]
split_first(key) ==
    LET dashes == {i \in DOMAIN key : key[i] = "-"}
    IN  IF dashes = {} THEN key
        ELSE SubSeq(key, 1, (CHOOSE i \in dashes : \A j \in dashes : i <= j) - 1)

\* key[0]
first_char(key) == <<key[1]>>

\* np.max of a non-empty list of numbers.
np_max(numbers) ==
    CHOOSE n \in {numbers[i] : i \in DOMAIN numbers} :
        \A i \in DOMAIN numbers : numbers[i] <= n

LAST == <<"last">>

Returned(item) == [status |-> "returned", value |-> item.value, key |-> item.key]

Raised(error) == [status |-> error, value |-> 0, key |-> <<>>]

NoResult == [status |-> "none", value |-> 0, key |-> <<>>]

\* spikewrap: the step numbers of the keys, as integers.
get_keys_first_char(d) == [i \in DOMAIN d |-> int(split_first(d[i].key))]

\* swc_ephys: the first characters of the keys, as integers.
get_keys_first_char_swc_ephys(d) == [i \in DOMAIN d |-> int(first_char(d[i].key))]

\* spikewrap get_dict_value_from_step_num(data, step_num): the outcomes it
\* can have.  A failed uniqueness assertion is caught and enters the
\* debugger; leaving it either quits or goes on to select_step_pp_key[0].
get_dict_value_from_step_num(d, sn) ==
    IF sn = LAST /\ d = <<>> THEN {Raised("ValueError")}
    ELSE
    LET step == IF sn = LAST THEN str(np_max(get_keys_first_char(d))) ELSE sn
    IN  IF sn = LAST /\ int(step) # Len(d) - 1 THEN {Raised("AssertionError")}
        ELSE
        LET select_step_pp_key == SelectSeq(d, LAMBDA item : split_first(item.key) = step)
        IN  IF Len(select_step_pp_key) = 1
            THEN {Returned(select_step_pp_key[1])}
            ELSE {Raised("BdbQuit")}
                 \cup (IF select_step_pp_key = <<>>
                       THEN {Raised("IndexError")}
                       ELSE {Returned(select_step_pp_key[1])})

\* swc_ephys get_dict_value_from_step_num(data, step_num).
get_dict_value_from_step_num_swc_ephys(d, sn) ==
    IF sn = LAST /\ d = <<>> THEN {Raised("ValueError")}
    ELSE
    LET step == IF sn = LAST THEN str(np_max(get_keys_first_char_swc_ephys(d))) ELSE sn
    IN  IF sn = LAST /\ int(step) # Len(d) - 1 THEN {Raised("AssertionError")}
        ELSE
        LET select_step_pp_key == SelectSeq(d, LAMBDA item : first_char(item.key) = step)
        IN  IF Len(select_step_pp_key) = 1
            THEN {Returned(select_step_pp_key[1])}
            ELSE {Raised("AssertionError")}

\* "<step number>-<cumulative step name>"
FormatKey(n, name) == str(n) \o <<"-">> \o name

\* The name of step n in a chain, and that of a second key of the same step.
StepName(n) == IF n = 0 THEN <<"raw">> ELSE <<"raw", "-", "phase_shift">>

OtherName == <<"raw", "-", "bandpass_filter">>

\* Sets of step numbers: 0..a-1, possibly joined with b..c.
StepSets ==
    {0..(a - 1) : a \in 0..(MaxStep + 1)}
    \cup {(0..(a - 1)) \cup (b..c) : a \in 0..MaxStep, b \in 1..MaxStep, c \in 1..MaxStep}

RECURSIVE Ascending(_)
Ascending(S) ==
    IF S = {} THEN <<>>
    ELSE LET least == CHOOSE n \in S : \A m \in S : n <= m
         IN  <<least>> \o Ascending(S \ {least})

\* The dict of the steps in S, inserted in step order, values 1, 2, ...
\* (`step` records the number a key was formatted from; the functions read
\* `key` and `value` only.)
Chain(S) ==
    LET steps == Ascending(S)
    IN  [i \in DOMAIN steps |-> [key |-> FormatKey(steps[i], StepName(steps[i])), value |-> i, step |-> steps[i]]]

\* The dicts looked into: a chain, or a chain with a second key for one of
\* its steps.
Dicts ==
    {Chain(S) : S \in StepSets}
    \cup UNION {{Append(Chain(S), [key |-> FormatKey(n, OtherName), value |-> Cardinality(S) + 1, step |-> n]) : n \in S} :
                   S \in StepSets}

StepNums == {LAST} \cup {str(k) : k \in 0..MaxStep}

Variants == {"spikewrap", "swc_ephys"}

StepInit ==
    /\ MainIdle
    /\ LayoutIdle
    /\ PipeIdle
    /\ OrderIdle
    /\ RaceIdle
    /\ data \in Dicts
    /\ step_num \in StepNums
    /\ spc = "input"
    /\ result = [v \in Variants |-> NoResult]

\* spikewrap.utils.get_dict_value_from_step_num(data, step_num)
CallSpikewrap ==
    /\ spc \in {"input", "called"}
    /\ result["spikewrap"] = NoResult
    /\ \E outcome \in get_dict_value_from_step_num(data, step_num) :
           result' = [result EXCEPT !["spikewrap"] = outcome]
    /\ spc' = "called"
    /\ UNCHANGED <<data, step_num, notStepVars>>

\* swc_ephys.utils.get_dict_value_from_step_num(data, step_num)
CallSwcEphys ==
    /\ spc \in {"input", "called"}
    /\ result["swc_ephys"] = NoResult
    /\ \E outcome \in get_dict_value_from_step_num_swc_ephys(data, step_num) :
           result' = [result EXCEPT !["swc_ephys"] = outcome]
    /\ spc' = "called"
    /\ UNCHANGED <<data, step_num, notStepVars>>

StepNext ==
    \/ CallSpikewrap
    \/ CallSwcEphys

StepSpec == StepInit /\ [][StepNext]_vars

\* ------------------------------------------------- lookup: vocabulary
\* The highest step number among the keys of the dict.
MaxStepOf(d) == CHOOSE n \in {d[i].step : i \in DOMAIN d} : \A i \in DOMAIN d : d[i].step <= n

ItemsOfStep(d, n) == {i \in DOMAIN d : d[i].step = n}

\* The claim of C20 for one variant of the function.
LastIsMaxStep(v) ==
    (step_num = LAST /\ data # <<>> /\ result[v] # NoResult) =>
        /\ (MaxStepOf(data) = Len(data) - 1 /\ Cardinality(ItemsOfStep(data, MaxStepOf(data))) = 1) =>
               \E i \in ItemsOfStep(data, MaxStepOf(data)) : result[v] = Returned(data[i])
        /\ MaxStepOf(data) # Len(data) - 1 =>
               result[v].status = "AssertionError"

\* C20 -- "last".  get_dict_value_from_step_num(data, "last"), in spikewrap
\* and in swc_ephys: where the highest step number among the keys equals
\* len(data.keys()) - 1, the call returns the value and the key of that step;
\* where it does not, the call ends in an AssertionError and returns nothing.
C20_LastIsMaxStep ==
    \A v \in Variants : LastIsMaxStep(v)

\* The step number a call asks for: the highest one for "last".
RequestedItems ==
    IF data = <<>> THEN {}
    ELSE ItemsOfStep(data, IF step_num = LAST THEN MaxStepOf(data) ELSE int(step_num))

\* The claim of C21 for one variant of the function.
NoUniqueKeyIsFatal(v) ==
    (result[v] # NoResult /\ Cardinality(RequestedItems) # 1) =>
        result[v].status # "returned"

\* C21 -- Duplicate step key is fatal.  Where no key, or more than one key,
\* of data carries the requested step number, get_dict_value_from_step_num,
\* in spikewrap and in swc_ephys, ends in an error and returns no
\* (value, key) pair.
C21_DuplicateStepKeyFatal ==
    \A v \in Variants : NoUniqueKeyIsFatal(v)

\* ======================================================= run_full_pipeline
\* swc_ephys run_full_pipeline, with the run_sorting it calls: the stages in
\* the order the call goes through them.  Every external stage can raise.

supported_sorters_swc_ephys == {"kilosort2", "kilosort2_5", "kilosort3"}

SorterArgs == supported_sorters_swc_ephys \cup {"mountainsort5"}

\* check_singularity_install(): subprocess.run("singularity --version",
\* shell=True) starts a shell, which reports a missing program by its exit
\* status; no FileNotFoundError is raised and the status is not looked at.
check_singularity_install(installed) == TRUE

\* Where run_full_pipeline goes on once run_sorting has ended: an exception
\* is not caught.  (Faulty variant: the quality check runs regardless.)
AfterRunSortingAlways(ok) == "quality_check"

AfterRunSorting(ok) == IF ok THEN "quality_check" ELSE "raised"

PipeInit ==
    /\ MainIdle
    /\ LayoutIdle
    /\ StepIdle
    /\ OrderIdle
    /\ RaceIdle
    /\ fp_args \in [slurm_batch : BOOLEAN, sorter : SorterArgs,
                    use_existing_preprocessed_file : BOOLEAN,
                    overwrite_existing_sorter_output : BOOLEAN]
    /\ preprocessed_exists \in BOOLEAN
    /\ singularity_installed \in BOOLEAN
    /\ fpc = "start"
    /\ stage_log = <<>>
    /\ fp_submitted = 0

\* An external stage is entered; it returns or raises.
Stage(name, ok, next) ==
    /\ stage_log' = Append(stage_log, name)
    /\ fpc' = IF ok THEN next ELSE "raised"

\* if slurm_batch: submit and return; else get_configs(config_name)
FP_Enter ==
    /\ fpc = "start"
    /\ IF fp_args.slurm_batch
       THEN /\ fp_submitted' = fp_submitted + 1
            /\ fpc' = "returned"
            /\ UNCHANGED stage_log
       ELSE /\ \E ok \in BOOLEAN : Stage("get_configs", ok, "load")
            /\ UNCHANGED fp_submitted
    /\ UNCHANGED <<fp_args, singularity_installed, preprocessed_exists, notPipeVars>>

\* data = load_spikeglx_data(base_path, sub_name, run_names)
FP_Load ==
    /\ fpc = "load"
    /\ \E ok \in BOOLEAN : Stage("load_spikeglx_data", ok, "preprocess")
    /\ UNCHANGED <<fp_args, singularity_installed, preprocessed_exists, fp_submitted, notPipeVars>>

\* data = preprocess(data, pp_steps, verbose)  (lazy)
FP_Preprocess ==
    /\ fpc = "preprocess"
    /\ \E ok \in BOOLEAN : Stage("preprocess", ok, "run_sorting")
    /\ UNCHANGED <<fp_args, singularity_installed, preprocessed_exists, fp_submitted, notPipeVars>>

\* run_sorting(data, sorter, ...) up to the call of ss.run_sorter: the
\* assertions on the sorter name and on singularity, then
\* get_data_and_recording.
FP_RunSorting ==
    /\ fpc = "run_sorting"
    /\ \E ok \in BOOLEAN :
           IF fp_args.sorter \notin supported_sorters_swc_ephys
              \/ ~check_singularity_install(singularity_installed)
           THEN /\ Stage("run_sorting", FALSE, "raised")
                /\ UNCHANGED preprocessed_exists
           ELSE /\ Stage("run_sorting", ok, "run_sorter")
                /\ preprocessed_exists' =
                       IF fp_args.use_existing_preprocessed_file /\ preprocessed_exists
                       THEN preprocessed_exists
                       ELSE TRUE
    /\ UNCHANGED <<fp_args, singularity_installed, fp_submitted, notPipeVars>>

\* ss.run_sorter(...) returns or raises, and with it run_sorting.
FP_SorterEnds ==
    /\ fpc = "run_sorter"
    /\ \E ok \in BOOLEAN :
           /\ stage_log' = Append(stage_log, IF ok THEN "run_sorting returned" ELSE "run_sorting raised")
           /\ fpc' = AfterRunSorting(ok)
    /\ UNCHANGED <<fp_args, singularity_installed, preprocessed_exists, fp_submitted, notPipeVars>>

\* quality_check(data.preprocessed_output_path, sorter, verbose)
FP_QualityCheck ==
    /\ fpc = "quality_check"
    /\ \E ok \in BOOLEAN : Stage("quality_check", ok, "done")
    /\ UNCHANGED <<fp_args, singularity_installed, preprocessed_exists, fp_submitted, notPipeVars>>

PipeNext ==
    \/ FP_Enter
    \/ FP_Load
    \/ FP_Preprocess
    \/ FP_RunSorting
    \/ FP_SorterEnds
    \/ FP_QualityCheck

PipelineSpec == PipeInit /\ [][PipeNext]_vars

\* Stage a was entered before position i of the log.
EnteredBefore(a, i) == \E j \in 1..(i - 1) : stage_log[j] = a

InLog(a) == \E i \in DOMAIN stage_log : stage_log[i] = a

\* C22 -- Stage ordering.  In an inline call of run_full_pipeline, loading
\* and preprocessing were entered before run_sorting is; quality_check is
\* entered only after run_sorting has returned; where run_sorting raised,
\* quality_check is not entered.
C22_StageOrdering ==
    /\ \A i \in DOMAIN stage_log :
           /\ stage_log[i] = "run_sorting" =>
                  /\ EnteredBefore("load_spikeglx_data", i)
                  /\ EnteredBefore("preprocess", i)
           /\ stage_log[i] = "quality_check" => EnteredBefore("run_sorting returned", i)
    /\ (fpc = "raised" /\ stage_log # <<>> /\ stage_log[Len(stage_log)] = "run_sorting") =>
           ~InLog("quality_check")
    /\ InLog("run_sorting raised") => ~InLog("quality_check")

\* An inline call went through every stage.
C22_Witness ==
    /\ fpc = "done"
    /\ stage_log = <<"get_configs", "load_spikeglx_data", "preprocess", "run_sorting",
                     "run_sorting returned", "quality_check">>

\* ================================================== paths in datetime order
\* swc_ephys utils: sort_list_of_paths_by_datetime_order and
\* list_of_files_are_in_datetime_order, applied to a list of folders with
\* the times the file system reports for them.

MaxTime == 2

PathNames == {"run-001", "run-002", "run-003"}

Times == 1..MaxTime

getctime(st) == [p \in DOMAIN st |-> st[p].ctime]

getmtime(st) == [p \in DOMAIN st |-> st[p].mtime]

\* x put into the sorted list t behind every element whose key is not larger.
InsertByKey(t, x, key) ==
    LET n == Cardinality({i \in DOMAIN t : key[t[i]] <= key[x]})
    IN  SubSeq(t, 1, n) \o <<x>> \o SubSeq(t, n + 1, Len(t))

\* list.sort(key=...): stable, ascending.
RECURSIVE list_sort(_, _)
list_sort(l, key) ==
    IF l = <<>> THEN <<>>
    ELSE InsertByKey(list_sort(SubSeq(l, 1, Len(l) - 1), key), l[Len(l)], key)

Answer(v) == [status |-> "returned", value |-> v]

AssertionError == [status |-> "AssertionError", value |-> FALSE]

sort_list_of_paths_by_datetime_order(paths, st) ==
    [status |-> "returned", value |-> list_sort(paths, getctime(st))]

\* The time the check orders by.
filter(st, c_or_m) ==
    IF c_or_m = "creation" THEN getmtime(st) ELSE getctime(st)

list_of_files_are_in_datetime_order(paths, st, c_or_m) ==
    IF c_or_m \notin {"creation", "modification"}
    THEN AssertionError
    ELSE Answer(paths = list_sort(paths, filter(st, c_or_m)))

OrderInit ==
    /\ MainIdle
    /\ LayoutIdle
    /\ StepIdle
    /\ PipeIdle
    /\ RaceIdle
    /\ list_of_paths \in SeqsNoDup(PathNames, Cardinality(PathNames))
    /\ stat \in [PathNames -> [ctime : Times, mtime : Times]]
    /\ creation_or_modification \in {"creation", "modification", "created"}
    /\ order_result = NoAnswer
    /\ sorted_result = NoList

CheckOrder ==
    /\ order_result = NoAnswer
    /\ list_of_paths \in SeqsNoDup(PathNames, Cardinality(PathNames))
    /\ stat # <<>>
    /\ order_result' = list_of_files_are_in_datetime_order(list_of_paths, stat, creation_or_modification)
    /\ UNCHANGED <<list_of_paths, stat, creation_or_modification, sorted_result, notOrderVars>>

SortPaths ==
    /\ sorted_result = NoList
    /\ stat # <<>>
    /\ sorted_result' = sort_list_of_paths_by_datetime_order(list_of_paths, stat)
    /\ UNCHANGED <<list_of_paths, stat, creation_or_modification, order_result, notOrderVars>>

OrderNext ==
    \/ CheckOrder
    \/ SortPaths

OrderSpec == OrderInit /\ [][OrderNext]_vars

\* The list is in ascending order of the given time of its paths.
InOrderOf(paths, key) ==
    \A i, j \in DOMAIN paths : i < j => key[paths[i]] <= key[paths[j]]

\* C23 -- list_of_files_are_in_datetime_order(paths, "creation") returns
\* True exactly when the paths are in order of creation time, with
\* "modification" exactly when they are in order of modification time, and
\* fails an assertion for every other value of the argument.
C23_DatetimeOrderCheck ==
    order_result # NoAnswer =>
        /\ creation_or_modification = "creation" =>
               order_result = Answer(InOrderOf(list_of_paths, getctime(stat)))
        /\ creation_or_modification = "modification" =>
               order_result = Answer(InOrderOf(list_of_paths, getmtime(stat)))
        /\ creation_or_modification \notin {"creation", "modification"} =>
               order_result = AssertionError

\* ================================================== claims on run_sorting
\* C24 -- An invalid sorter name is fatal before any effect: a call of
\* run_sorting with a sorter outside supported_sorters has invoked no
\* sorter, has left the working directory of its process where it was and,
\* with slurm_batch=True, has submitted no job.
C24_InvalidSorterFatalFirst ==
    sorter_arg \notin supported_sorters =>
        /\ calls = {}
        /\ CallerCwd = cwdStart
        /\ submitted = 0

\* C25 -- save_sorting_info(run_name) has run only for units whose
\* ss.run_sorter call returned; for a unit whose sorter raised, the call has
\* saved nothing and the unit's folder holds no manifest of this execution.
C25_ManifestAfterSorterSuccess ==
    \A u \in Units :
        /\ u \in saved => u \in sorterReturned
        /\ u \in sorterFailed =>
               /\ u \notin saved
               /\ inv \notin disk[OutputPath(u)].manifest

\* The first unit was sorted and its manifest saved; the sorter raised on
\* the second.
C25_Witness ==
    /\ saved = {1}
    /\ sorterFailed = {2}

\* The Fail decision's error names the resolved output path and the mode.
FailErrorNamesPathAndMode(u) ==
    (decision[u] = "Fail" /\ raisedAt = u) =>
        /\ raisedError.path = OutputPath(u)
        /\ raisedError.mode = "fail_if_exists"

\* C26 -- A failure of the external sorter for a unit reaches the caller of
\* run_sorting as an error that carries the identity of the failing unit,
\* and the error of a Fail decision names the resolved output path and the
\* mode 'fail_if_exists'.
C26_ErrorCarriesUnitIdentity ==
    \A u \in Units :
        /\ (u \in sorterFailed /\ raisedAt = u) =>
               /\ pc = "raised"
               /\ raisedError.type # "none"
               /\ raisedError.path = OutputPath(u)
        /\ FailErrorNamesPathAndMode(u)

C28_RemoveOnlyOnOverwrite ==
    \A i \in DOMAIN run_sorter_calls :
        (run_sorter_calls[i].existed /\ run_sorter_calls[i].kwargs.remove_existing_folder) =>
            mode = "overwrite"

\* An output folder that a sorter created and did not finish: it holds no
\* manifest.
Incomplete(entry) == entry.is_dir /\ entry.manifest = {}

\* C29 -- Safe retry.  A unit whose folder was left behind by a failed
\* ss.run_sorter call is, in a later call with load_if_exists, not treated
\* as LoadExisting: the call sorts it again.
C29_RetrySortsIncompleteUnit ==
    \A u \in Units :
        (mode = "load_if_exists" /\ Visited(u) /\ Incomplete(snap[OutputPath(u)])) =>
            /\ decision[u] # "LoadExisting"
            /\ u \in calls

\* The number of ss.run_sorter invocations of the current call for the unit.
InvocationsOf(u) ==
    Cardinality({i \in DOMAIN run_sorter_calls : run_sorter_calls[i].unit = u})

\* C30 -- Within one run of the loop, units are processed one at a time in
\* the order of sorting_run_names(): each unit is visited at most once and
\* in that order, the sorter is invoked exactly once for every unit whose
\* decision is ProceedFresh (and for no other), and the manifest of unit i
\* has been saved by the time the existence check of unit i+1 is made.
C30_SequentialUnits ==
    /\ \A i \in DOMAIN visit_order : visit_order[i] = i
    /\ \A u \in Units :
           InvocationsOf(u) = IF decision[u] = "ProceedFresh" THEN 1 ELSE 0
    /\ \A u \in Units :
           (u + 1 \in Units /\ Visited(u + 1) /\ decision[u] = "ProceedFresh") =>
               /\ u \in saved
               /\ disk[OutputPath(u)].manifest = {inv}

\* Every unit was sorted afresh, one after the other.
C30_Witness ==
    /\ pc = "done"
    /\ visit_order = [i \in 1..NUnits |-> i]
    /\ \A u \in Units : decision[u] = "ProceedFresh" /\ InvocationsOf(u) = 1

\* r holds the elements of l, each as often as l does.
IsPermutation(r, l) ==
    /\ Len(r) = Len(l)
    /\ \A x \in PathNames :
           Cardinality({i \in DOMAIN r : r[i] = x}) = Cardinality({i \in DOMAIN l : l[i] = x})

\* Elements of l with the same key stand in r in the order they have in l.
KeepsOrderOfEqual(r, l, key) ==
    \A i, j \in DOMAIN l :
        (i < j /\ key[l[i]] = key[l[j]]) =>
            \E a, b \in DOMAIN r : a < b /\ r[a] = l[i] /\ r[b] = l[j]

SortedByCreationTime(r, l, st) ==
    /\ IsPermutation(r, l)
    /\ InOrderOf(r, getctime(st))
    /\ KeepsOrderOfEqual(r, l, getctime(st))

\* C35 -- sort_list_of_paths_by_datetime_order(paths) returns a permutation
\* of paths in non-decreasing order of creation time, keeps the input order
\* of paths created at the same time, leaves the input list as it was, and
\* its result passes list_of_files_are_in_datetime_order(result, "creation").
C35_SortByCreationTime ==
    [][SortPaths =>
          /\ list_of_paths' = list_of_paths
          /\ SortedByCreationTime(sorted_result'.value, list_of_paths, stat)
          /\ list_of_files_are_in_datetime_order(sorted_result'.value, stat, "creation") = Answer(TRUE)]_vars

\* C34 -- check_singularity_install() returns True where singularity is
\* installed and False where it is not, so that on a system without
\* singularity swc_ephys run_sorting fails its assertion before any call of
\* the sorter.
C34_SingularityChecked ==
    InLog("run_sorting") =>
        /\ check_singularity_install(singularity_installed) = singularity_installed
        /\ ~singularity_installed =>
               /\ fpc \notin {"run_sorter", "quality_check", "done"}
               /\ ~InLog("run_sorting returned")
               /\ ~InLog("run_sorting raised")

\* The loop body has called quick_safety_check for the unit: its output
\* directory existed and neither the fail nor the load branch was taken.
QuickSafetyCheckCalled(u) ==
    /\ Visited(u)
    /\ seenExists[u]
    /\ decision[u] \in {"ProceedFresh", "AssertionError"}

\* C33 -- The assertions of quick_safety_check never fail at its call site:
\* wherever run_sorting_on_all_runs calls it, existing_sorting_output is not
\* 'fail_if_exists', and if it is 'load_if_exists' the output path is not a
\* directory.
C33_QuickSafetyCheckPasses ==
    \A u \in Units :
        QuickSafetyCheckCalled(u) =>
            /\ mode # "fail_if_exists"
            /\ mode = "load_if_exists" => ~seenExists[u]
            /\ decision[u] # "AssertionError"

\* quick_safety_check was called for a unit with existing output, passed,
\* and the unit was sorted.
C33_Witness ==
    \E u \in Units :
        /\ QuickSafetyCheckCalled(u)
        /\ mode = "overwrite"
        /\ u \in saved

\* The dict is a well-formed chain: N >= 1 artifacts keyed "0-..." to
\* "(N-1)-...".
WellFormedChain == data # <<>> /\ data = Chain(0..(Len(data) - 1))

\* The artifact of step k of a well-formed chain.
ArtifactOfStep(k) == data[k + 1]

\* The variant's lookup has returned the artifact of the step asked for.
LooksUpChain(v) ==
    (WellFormedChain /\ result[v] # NoResult) =>
        /\ step_num = LAST => result[v] = Returned(ArtifactOfStep(Len(data) - 1))
        /\ (step_num # LAST /\ int(step_num) < Len(data)) =>
               result[v] = Returned(ArtifactOfStep(int(step_num)))

\* C32 -- For every well-formed step chain of N >= 1 artifacts, N > 10
\* included, get_dict_value_from_step_num(data, "last") returns the artifact
\* of step N-1 and get_dict_value_from_step_num(data, str(k)) that of step k
\* for every 0 <= k < N, in the spikewrap and in the swc_ephys utils.
C32_ChainLookup ==
    \A v \in Variants : LooksUpChain(v)

\* ================================================ concurrent invocations
\* Two inline invocations of run_sorting with the same base path, subject
\* and existing_sorting_output, each running run_sorting_on_all_runs in its
\* own process.  The statements of the loop body are the steps: the test
\* output_path.is_dir() and the call of ss.run_sorter are separate
\* statements, and the code takes no lock.

\* The generation an invocation writes.
Gen(p) == IF p = "a" THEN 1 ELSE 2

\* From the passed existence check to the call of ss.run_sorter: the call
\* is made, whatever has happened to output_path since the check.  (Variant
\* for comparison: the path is tested again under fail_if_exists.)
InvokeAfterCheckTestsAgain(existing_sorting_output, path_is_dir_now) ==
    IF existing_sorting_output = "fail_if_exists" /\ path_is_dir_now THEN "raised" ELSE "sorting"

InvokeAfterCheck(existing_sorting_output, path_is_dir_now) == "sorting"

RaceInit ==
    /\ MainIdle
    /\ LayoutIdle
    /\ StepIdle
    /\ PipeIdle
    /\ OrderIdle
    /\ race_disk \in [Units -> {Absent, CompleteOutput(0)}]
    /\ race_mode \in Modes
    /\ race_pc = [p \in Invocations |-> "loop"]
    /\ race_idx = [p \in Invocations |-> 1]
    /\ race_seen = [p \in Invocations |-> [u \in Units |-> FALSE]]

\* if output_path.is_dir(): ... up to the line before ss.run_sorter.
RaceCheck(p) ==
    /\ race_pc[p] = "loop"
    /\ race_idx[p] \in Units
    /\ LET e == is_dir(race_disk, OutputPath(race_idx[p]))
           o == UnitOutcome(race_mode, e)
       IN  /\ race_seen' = [race_seen EXCEPT ![p][race_idx[p]] = e]
           /\ race_pc' = [race_pc EXCEPT ![p] =
                             CASE o \in {"Fail", "AssertionError"} -> "raised"
                               [] o = "LoadExisting" -> "loop"
                               [] OTHER -> "checked"]
           /\ race_idx' = [race_idx EXCEPT ![p] = IF o = "LoadExisting" THEN @ + 1 ELSE @]
    /\ UNCHANGED <<race_disk, race_mode, notRaceVars>>

\* ss.run_sorter(..., remove_existing_folder=True) is called and prepares
\* its output folder.
RaceInvoke(p) ==
    /\ race_pc[p] = "checked"
    /\ LET path == OutputPath(race_idx[p])
           next == InvokeAfterCheck(race_mode, is_dir(race_disk, path))
       IN  /\ race_pc' = [race_pc EXCEPT ![p] = next]
           /\ race_disk' = IF next = "sorting"
                           THEN [race_disk EXCEPT ![path] = RunSorterFolder(@)]
                           ELSE race_disk
    /\ UNCHANGED <<race_mode, race_idx, race_seen, notRaceVars>>

\* ss.run_sorter returns.
RaceSorterReturn(p) ==
    /\ race_pc[p] = "sorting"
    /\ race_disk' = [race_disk EXCEPT ![OutputPath(race_idx[p])].is_dir = TRUE,
                                      ![OutputPath(race_idx[p])].files = @ \cup {Gen(p)}]
    /\ race_pc' = [race_pc EXCEPT ![p] = "save"]
    /\ UNCHANGED <<race_mode, race_idx, race_seen, notRaceVars>>

\* ss.run_sorter raises.
RaceSorterError(p) ==
    /\ race_pc[p] = "sorting"
    /\ race_pc' = [race_pc EXCEPT ![p] = "raised"]
    /\ UNCHANGED <<race_disk, race_mode, race_idx, race_seen, notRaceVars>>

\* sorting_data.save_sorting_info(run_name), then the next iteration.
RaceSave(p) ==
    /\ race_pc[p] = "save"
    /\ race_disk' = [race_disk EXCEPT ![OutputPath(race_idx[p])] = save_sorting_info(@, Gen(p))]
    /\ race_idx' = [race_idx EXCEPT ![p] = @ + 1]
    /\ race_pc' = [race_pc EXCEPT ![p] = "loop"]
    /\ UNCHANGED <<race_mode, race_seen, notRaceVars>>

\* The loop is exhausted.
RaceLoopEnd(p) ==
    /\ race_pc[p] = "loop"
    /\ race_idx[p] = NUnits + 1
    /\ race_pc' = [race_pc EXCEPT ![p] = "done"]
    /\ UNCHANGED <<race_disk, race_mode, race_idx, race_seen, notRaceVars>>

RaceNext ==
    \/ \E p \in Invocations : RaceCheck(p)
    \/ \E p \in Invocations : RaceInvoke(p)
    \/ \E p \in Invocations : RaceSorterReturn(p)
    \/ \E p \in Invocations : RaceSorterError(p)
    \/ \E p \in Invocations : RaceSave(p)
    \/ \E p \in Invocations : RaceLoopEnd(p)

RaceSpec == RaceInit /\ [][RaceNext]_vars

\* C31 -- Concurrent invocations are not safe.  The existence check and the
\* sorter call are not atomic and nothing locks the path: an invocation that
\* has passed output_path.is_dir() for a unit goes on to call ss.run_sorter
\* on that path, which removes and recreates the folder, whatever the other
\* invocation has done to it since; so both invocations can be inside
\* ss.run_sorter for the same unit under fail_if_exists.
C31_CheckAndSortNotAtomic ==
    [][\A p \in Invocations :
           (race_pc[p] = "checked" /\ race_pc'[p] # "checked") =>
               /\ race_pc'[p] = "sorting"
               /\ race_disk'[OutputPath(race_idx[p])] = EmptyDir]_vars

\* Under fail_if_exists both invocations passed the check for the same unit
\* and both are inside ss.run_sorter on its output path.
C31_Witness ==
    /\ race_mode = "fail_if_exists"
    /\ \E u \in Units :
           \A p \in Invocations :
               /\ race_pc[p] = "sorting"
               /\ race_idx[p] = u
               /\ ~race_seen[p][u]

====
